---- MODULE Spec2Model ----
(***************************************************************************)
(* Model of src/src/config.ts of vite-pwa/sveltekit:                       *)
(*   - buildGlobPatterns / buildGlobIgnores, the merge of caller supplied  *)
(*     glob lists with the baseline lists;                                 *)
(*   - createManifestTransform, the asynchronous workbox manifest          *)
(*     transform that rewrites the url of every precache entry, and        *)
(*     buildManifestEntry, the streaming hash of the version file.         *)
(* Strings are TLA+ strings; the JavaScript string methods used by the     *)
(* code are the operators startsWith, endsWith, slice, substring,          *)
(* lastIndexOf and includes below.                                         *)
(***************************************************************************)
EXTENDS Integers, Sequences, FiniteSets, TLC

VARIABLES
    \* ---- createManifestTransform(base, outDir, webManifestName, options)
    base,             \* base: string
    webManifestName,  \* webManifestName?: string
    options,          \* options?: KitOptions (trailingSlash, adapterFallback, spa)
    entries,          \* the entries the transform is called with
    pc,               \* position of the async transform
    manifest,         \* const manifest (lines 115-160, pushed to at 167/174)
    cHash,            \* content fed to crypto.createHash('MD5') so far
    chunksRead,       \* number of 'data' events of the read stream
    supplierCalls,    \* number of calls of options.spa.fallbackRevision
    supplied,         \* value the awaited fallbackRevision() resolved with
    result,           \* the value the transform's promise fulfilled with
    error,            \* the reason the transform's promise rejected with
    readError,        \* the err the read stream emitted with 'error'
    \* ---- buildGlobPatterns / buildGlobIgnores
    globPatterns,     \* config.globPatterns
    globIgnores,      \* config.globIgnores
    givenPatterns,    \* config.globPatterns before the first merge
    givenIgnores,     \* config.globIgnores before the first merge
    patternCalls,     \* number of buildGlobPatterns calls so far
    ignoreCalls       \* number of buildGlobIgnores calls so far

tvars == <<base, webManifestName, options, entries, pc, manifest, cHash,
           chunksRead, supplierCalls, supplied, result, error, readError>>
gvars == <<globPatterns, globIgnores, givenPatterns, givenIgnores,
           patternCalls, ignoreCalls>>
vars == <<base, webManifestName, options, entries, pc, manifest, cHash,
          chunksRead, supplierCalls, supplied, result, error, readError,
          globPatterns, globIgnores, givenPatterns, givenIgnores,
          patternCalls, ignoreCalls>>

----------------------------------------------------------------------------
\* Bounds of the model.

\* longest entry list the transform is called with
MaxEntries == 2
\* longest free part of a generated url
MaxStem == 2
\* most 'data' events of the version file's read stream
MaxChunks == 2
\* longest caller supplied glob list
MaxGlobs == 2
\* most calls of each glob merge function
MaxCalls == 2

----------------------------------------------------------------------------
\* JavaScript values and string methods.

\* the JavaScript value undefined, for an optional string
Undefined == "<undefined>"

\* JavaScript truthiness of an optional string
Truthy(s) == s # Undefined /\ s # ""

\* an optional array: absent (undefined) or present
Absent == [some |-> FALSE, val |-> <<>>]
Some(v) == [some |-> TRUE, val |-> v]

Max(S) == CHOOSE m \in S : \A n \in S : n <= m

startsWith(s, p) == Len(s) >= Len(p) /\ SubSeq(s, 1, Len(p)) = p

endsWith(s, p) == Len(s) >= Len(p) /\ SubSeq(s, Len(s) - Len(p) + 1, Len(s)) = p

\* s.slice(n), n >= 0
slice(s, n) == SubSeq(s, n + 1, Len(s))

\* s.substring(a, b) and s.slice(a, b) for 0 <= a; b = -1 is clamped by
\* substring to 0
substring(s, a, b) == SubSeq(s, a + 1, IF b < 0 THEN 0 ELSE b)

\* s.lastIndexOf(c) for a one character c: 0-based, -1 when absent
lastIndexOf(s, c) ==
    LET I == {i \in 1..Len(s) : SubSeq(s, i, i) = c}
    IN  IF I = {} THEN -1 ELSE Max(I) - 1

includes(s, sub) ==
    \E i \in 1..(Len(s) - Len(sub) + 1) : SubSeq(s, i, i + Len(sub) - 1) = sub

\* array.some(pred) for the three predicates of the code
someStartsWith(list, p) == \E i \in 1..Len(list) : startsWith(list[i], p)
someIncludes(list, sub) == \E i \in 1..Len(list) : includes(list[i], sub)

----------------------------------------------------------------------------
\* buildGlobPatterns and buildGlobIgnores.

PrerenderedGlob == "prerendered/**/*.{html,json,js}"
ClientGlob == "client/**/*.{js,css,ico,png,svg,webp,webmanifest}"
WebManifestGlob == "client/*.webmanifest"
ServerGlob == "server/**"

\* the three conditional pushes, each testing the list as it is by then
pushPrerendered(list) ==
    IF ~someStartsWith(list, "prerendered/") THEN Append(list, PrerenderedGlob) ELSE list

pushClient(list) ==
    IF ~someStartsWith(list, "client/") THEN Append(list, ClientGlob) ELSE list

\* bug: client/*.webmanifest is pushed whatever the list holds
pushWebManifest_always(list) == Append(list, WebManifestGlob)

pushWebManifest(list) ==
    IF ~someIncludes(list, "webmanifest") THEN Append(list, WebManifestGlob) ELSE list

\* bug: the three tests look at the supplied list, not at the list as pushed to
buildGlobPatterns_testsSupplied(given) ==
    IF given.some
    THEN given.val
            \o (IF ~someStartsWith(given.val, "prerendered/") THEN <<PrerenderedGlob>> ELSE <<>>)
            \o (IF ~someStartsWith(given.val, "client/") THEN <<ClientGlob>> ELSE <<>>)
            \o (IF ~someIncludes(given.val, "webmanifest") THEN <<WebManifestGlob>> ELSE <<>>)
    ELSE <<ClientGlob, PrerenderedGlob>>

buildGlobPatterns(given) ==
    IF given.some
    THEN pushWebManifest(pushClient(pushPrerendered(given.val)))
    ELSE <<ClientGlob, PrerenderedGlob>>

\* bug: a supplied list without a server/ entry is replaced by the baseline
buildGlobIgnores_replaces(given) ==
    IF given.some /\ someStartsWith(given.val, "server/")
    THEN given.val
    ELSE <<ServerGlob>>

buildGlobIgnores(given) ==
    IF given.some
    THEN IF ~someStartsWith(given.val, "server/")
         THEN Append(given.val, ServerGlob)
         ELSE given.val
    ELSE <<ServerGlob>>

----------------------------------------------------------------------------
\* createManifestTransform: the per-entry rewrite.

defaultAdapterFallback == "prerendered/fallback.html"

\* bug: the slash is added unless trailingSlash is 'never'
suffix_unlessNever(opts) == IF opts.trailingSlash # "never" THEN "/" ELSE ""

suffix(opts) == IF opts.trailingSlash = "always" THEN "/" ELSE ""

\* let excludeFallback: no truthy options.adapterFallback
excludeFallback(opts) == ~Truthy(opts.adapterFallback)

\* let adapterFallback, after the defaulting of lines 109-112
adapterFallback(opts) ==
    IF Truthy(opts.adapterFallback) THEN opts.adapterFallback ELSE defaultAdapterFallback

\* the predicate of .filter() at line 116
keepEntry(opts, e) == ~(excludeFallback(opts) /\ e.url = defaultAdapterFallback)

\* bug: every url under prerendered/ loses that directory
resolvePrefix_anyPrerendered(opts, url) ==
    IF startsWith(url, "client/") THEN slice(url, 7)
    ELSE IF startsWith(url, "prerendered/dependencies/") THEN slice(url, 25)
    ELSE IF startsWith(url, "prerendered/pages/") THEN slice(url, 18)
    ELSE IF url = defaultAdapterFallback THEN adapterFallback(opts)
    ELSE IF startsWith(url, "prerendered/") THEN slice(url, 12)
    ELSE url

\* lines 124-131: the stage prefix is stripped, first match wins
resolvePrefix(opts, url) ==
    IF startsWith(url, "client/") THEN slice(url, 7)
    ELSE IF startsWith(url, "prerendered/dependencies/") THEN slice(url, 25)
    ELSE IF startsWith(url, "prerendered/pages/") THEN slice(url, 18)
    ELSE IF url = defaultAdapterFallback THEN adapterFallback(opts)
    ELSE url

\* line 134-135: one leading slash is stripped
stripLeadingSlash(url) == IF startsWith(url, "/") THEN slice(url, 1) ELSE url

\* bug: the root document gets the trailing-slash suffix too
htmlUrl_rootWithSuffix(b, sfx, url) ==
    IF url = "index.html"
    THEN b \o sfx
    ELSE LET idx == lastIndexOf(url, "/")
         IN  IF idx > -1
             THEN IF endsWith(url, "/index.html")
                  THEN substring(url, 0, idx) \o sfx
                  ELSE substring(url, 0, lastIndexOf(url, ".")) \o sfx
             ELSE substring(url, 0, lastIndexOf(url, ".")) \o sfx

\* lines 137-154, on an url that ends in .html, leading slash stripped
htmlUrl(b, sfx, url) ==
    IF url = "index.html"
    THEN b
    ELSE LET idx == lastIndexOf(url, "/")
         IN  IF idx > -1
             THEN IF endsWith(url, "/index.html")
                  THEN substring(url, 0, idx) \o sfx
                  ELSE substring(url, 0, lastIndexOf(url, ".")) \o sfx
             ELSE substring(url, 0, lastIndexOf(url, ".")) \o sfx

\* lines 133-155
prettyUrl(b, sfx, url) ==
    IF endsWith(url, ".html") THEN htmlUrl(b, sfx, stripLeadingSlash(url)) ELSE url

\* the callback of .map() at lines 117-160
mapEntry(b, opts, e) ==
    [e EXCEPT !.url = prettyUrl(b, suffix(opts), resolvePrefix(opts, e.url))]

\* lines 115-160: filter, then map, order kept
rewriteEntries(b, opts, es) ==
    LET keep(e) == keepEntry(opts, e)
        kept == SelectSeq(es, keep)
    IN  [i \in 1..Len(kept) |-> mapEntry(b, opts, kept[i])]

\* bug: the web manifest is not filtered out
finalManifest_keepsAll(wmn, m) == m

\* lines 181-184
finalManifest(wmn, m) ==
    IF ~Truthy(wmn)
    THEN m
    ELSE LET notWebManifest(e) == e.url # wmn
         IN  SelectSeq(m, notWebManifest)

\* line 162: options?.spa && options?.adapterFallback
spaFallback(opts) == opts.spa.kind # "off" /\ Truthy(opts.adapterFallback)

\* lines 163-165: const name
fallbackName(opts) ==
    IF opts.spa.kind = "object" /\ Truthy(opts.spa.fallbackMapping)
    THEN opts.spa.fallbackMapping
    ELSE opts.adapterFallback

\* bug: the supplier is used only together with a fallbackMapping
usesSupplier_needsMapping(opts) ==
    /\ opts.spa.kind = "object"
    /\ opts.spa.fallbackRevision
    /\ Truthy(opts.spa.fallbackMapping)

\* line 166: is options.spa an object with a fallbackRevision function
usesSupplier(opts) == opts.spa.kind = "object" /\ opts.spa.fallbackRevision

\* cHash.digest('hex') of the content read: an injective stand-in for MD5
digest(content) == "md5(" \o content \o ")"

\* resolve(outDir, 'client/_app/version.json') under the default globDirectory
versionFile == ".svelte-kit/output/client/_app/version.json"

NoResult == [some |-> FALSE, val |-> <<>>]
NoError == [some |-> FALSE, code |-> "", path |-> ""]

----------------------------------------------------------------------------
\* Inputs of the manifest transform.

RECURSIVE StemsOfLen(_)
StemsOfLen(k) ==
    IF k = 0 THEN {""} ELSE {s \o c : s \in StemsOfLen(k - 1), c \in {"a", "/"}}

Stems == UNION {StemsOfLen(k) : k \in 0..MaxStem}

StagePrefixes ==
    {"", "client/", "prerendered/dependencies/", "prerendered/pages/", "prerendered/"}

Tails == {"", ".js", ".html", "index.html", "manifest.webmanifest"}

\* urls built as stage prefix, free part, tail: used alone in a list
GeneratedUrls ==
    {p \o s \o t : p \in StagePrefixes, s \in Stems, t \in Tails}
        \cup {defaultAdapterFallback}

\* urls that entry lists of more than one entry are made of
ListUrls ==
    {"client/_app/x.js", "prerendered/pages/about.html", defaultAdapterFallback,
     "client/manifest.webmanifest", "prerendered/pages/index.html", "robots.txt"}

ScenarioUrls ==
    <<"client/_app/x.js", "prerendered/pages/about.html", defaultAdapterFallback>>

UrlLists ==
    UNION {[1..k -> ListUrls] : k \in 0..MaxEntries}
        \cup {<<u>> : u \in GeneratedUrls}
        \cup {ScenarioUrls}

\* a ManifestEntry & {size}; every input entry has a revision of its own
entryOf(urls, i) == [url |-> urls[i], revision |-> "rev" \o ToString(i), size |-> i]

EntryLists == {[i \in 1..Len(urls) |-> entryOf(urls, i)] : urls \in UrlLists}

SpaModes ==
    {[kind |-> "off", fallbackMapping |-> Undefined, fallbackRevision |-> FALSE],
     [kind |-> "true", fallbackMapping |-> Undefined, fallbackRevision |-> FALSE]}
        \cup [kind : {"object"}, fallbackMapping : {Undefined, "/offline"},
              fallbackRevision : BOOLEAN]

KitOptions ==
    [trailingSlash : {Undefined, "always", "never"},
     adapterFallback : {Undefined, "200.html"},
     spa : SpaModes]

Bases == {"/", "/app/"}

WebManifestNames == {Undefined, "manifest.webmanifest"}

\* what a fallbackRevision supplier resolves with
SuppliedRevisions == {"abc"}

\* chunks a 'data' event of the read stream delivers
Chunks == {"v", "w"}

----------------------------------------------------------------------------
\* The manifest transform as a process: one action per run between awaits.

GlobIdle ==
    /\ globPatterns = Absent
    /\ globIgnores = Absent
    /\ givenPatterns = Absent
    /\ givenIgnores = Absent
    /\ patternCalls = 0
    /\ ignoreCalls = 0

Init ==
    /\ base \in Bases
    /\ webManifestName \in WebManifestNames
    /\ options \in KitOptions
    /\ entries \in EntryLists
    /\ pc = "start"
    /\ manifest = <<>>
    /\ cHash = ""
    /\ chunksRead = 0
    /\ supplierCalls = 0
    /\ supplied = Undefined
    /\ result = NoResult
    /\ error = NoError
    /\ readError = NoError
    /\ GlobIdle

\* return { manifest } / { manifest: manifest.filter(...) }, lines 181-184
Return(m) ==
    /\ pc' = "fulfilled"
    /\ manifest' = m
    /\ result' = [some |-> TRUE, val |-> finalManifest(webManifestName, m)]

\* the transform is called: lines 103-160, then up to the first await or
\* to the return
TransformNoFallback ==
    /\ pc = "start"
    /\ ~spaFallback(options)
    /\ Return(rewriteEntries(base, options, entries))
    /\ UNCHANGED <<base, webManifestName, options, entries, cHash, chunksRead,
                   supplierCalls, supplied, error, readError>>
    /\ UNCHANGED gvars

\* line 169: fallbackRevision() is called and awaited
TransformCallSupplier ==
    /\ pc = "start"
    /\ spaFallback(options)
    /\ usesSupplier(options)
    /\ manifest' = rewriteEntries(base, options, entries)
    /\ supplierCalls' = supplierCalls + 1
    /\ pc' = "awaitRevision"
    /\ UNCHANGED <<base, webManifestName, options, entries, cHash, chunksRead,
                   supplied, result, error, readError>>
    /\ UNCHANGED gvars

\* line 174: buildManifestEntry is called and awaited; it creates the hash
\* and the read stream of the version file
TransformCallHash ==
    /\ pc = "start"
    /\ spaFallback(options)
    /\ ~usesSupplier(options)
    /\ manifest' = rewriteEntries(base, options, entries)
    /\ cHash' = ""
    /\ chunksRead' = 0
    /\ pc' = "hashing"
    /\ UNCHANGED <<base, webManifestName, options, entries, supplierCalls,
                   supplied, result, error, readError>>
    /\ UNCHANGED gvars

\* the supplier's promise fulfils: lines 167-171, then the return
RevisionFulfilled ==
    /\ pc = "awaitRevision"
    /\ \E r \in SuppliedRevisions :
        /\ supplied' = r
        /\ Return(Append(manifest,
                         [url |-> fallbackName(options), revision |-> r, size |-> 0]))
    /\ UNCHANGED <<base, webManifestName, options, entries, cHash, chunksRead,
                   supplierCalls, error, readError>>
    /\ UNCHANGED gvars

\* the supplier's promise rejects: the await throws out of the transform
RevisionRejected ==
    /\ pc = "awaitRevision"
    /\ pc' = "rejected"
    /\ error' = [some |-> TRUE, code |-> "supplier", path |-> ""]
    /\ UNCHANGED <<base, webManifestName, options, entries, manifest, cHash,
                   chunksRead, supplierCalls, supplied, result, readError>>
    /\ UNCHANGED gvars

\* stream.on('data'): lines 228-231
StreamData ==
    /\ pc = "hashing"
    /\ chunksRead < MaxChunks
    /\ \E c \in Chunks : cHash' = cHash \o c
    /\ chunksRead' = chunksRead + 1
    /\ UNCHANGED <<base, webManifestName, options, entries, pc, manifest,
                   supplierCalls, supplied, result, error, readError>>
    /\ UNCHANGED gvars

\* stream.on('end'): lines 232-238, then lines 174 and 181-184
StreamEnd ==
    /\ pc = "hashing"
    /\ Return(Append(manifest,
                     [url |-> fallbackName(options), size |-> 0,
                      revision |-> digest(cHash)]))
    /\ UNCHANGED <<base, webManifestName, options, entries, cHash, chunksRead,
                   supplierCalls, supplied, error, readError>>
    /\ UNCHANGED gvars

\* bug: the read error is caught and the manifest is returned without the
\* synthetic entry
StreamError_resolves ==
    /\ pc = "hashing"
    /\ \E code \in {"ENOENT", "EIO"} :
        /\ code = "ENOENT" => chunksRead = 0
        /\ readError' = [some |-> TRUE, code |-> code, path |-> versionFile]
    /\ Return(manifest)
    /\ UNCHANGED <<base, webManifestName, options, entries, cHash, chunksRead,
                   supplierCalls, supplied, error>>
    /\ UNCHANGED gvars

\* stream.on('error'): lines 225-227; the rejection passes through the
\* await of line 174. The file cannot be opened (ENOENT, before any data)
\* or a read fails (EIO)
StreamError ==
    /\ pc = "hashing"
    /\ \E code \in {"ENOENT", "EIO"} :
        /\ code = "ENOENT" => chunksRead = 0
        /\ readError' = [some |-> TRUE, code |-> code, path |-> versionFile]
    /\ error' = readError'
    /\ pc' = "rejected"
    /\ UNCHANGED <<base, webManifestName, options, entries, manifest, cHash,
                   chunksRead, supplierCalls, supplied, result>>
    /\ UNCHANGED gvars

Next ==
    \/ TransformNoFallback
    \/ TransformCallSupplier
    \/ TransformCallHash
    \/ RevisionFulfilled
    \/ RevisionRejected
    \/ StreamData
    \/ StreamEnd
    \/ StreamError

Spec == Init /\ [][Next]_vars

----------------------------------------------------------------------------
\* The glob merges as a process: configureSvelteKitOptions assigns
\* config.globPatterns = buildGlobPatterns(config.globPatterns) (line 64) and
\* config.globIgnores = buildGlobIgnores(config.globIgnores) (line 70); a
\* rebuild runs them again on the configuration they left.

PatternGlobs ==
    {"prerendered/x", "client/*.js", "static/*.webmanifest", "**/*.html",
     "xprerendered/client/"}

IgnoreGlobs == {"server/x", "**/*.map", "xserver/"}

GlobLists(S) == UNION {[1..k -> S] : k \in 0..MaxGlobs}

TransformIdle ==
    /\ base = "/"
    /\ webManifestName = Undefined
    /\ options = [trailingSlash |-> Undefined, adapterFallback |-> Undefined,
                  spa |-> [kind |-> "off", fallbackMapping |-> Undefined,
                           fallbackRevision |-> FALSE]]
    /\ entries = <<>>
    /\ pc = "idle"
    /\ manifest = <<>>
    /\ cHash = ""
    /\ chunksRead = 0
    /\ supplierCalls = 0
    /\ supplied = Undefined
    /\ result = NoResult
    /\ error = NoError
    /\ readError = NoError

InitGlob ==
    /\ givenPatterns \in {Absent} \cup {Some(l) : l \in GlobLists(PatternGlobs)}
    /\ givenIgnores \in {Absent} \cup {Some(l) : l \in GlobLists(IgnoreGlobs)}
    /\ globPatterns = givenPatterns
    /\ globIgnores = givenIgnores
    /\ patternCalls = 0
    /\ ignoreCalls = 0
    /\ TransformIdle

\* line 64
CallBuildGlobPatterns ==
    /\ patternCalls < MaxCalls
    /\ globPatterns' = Some(buildGlobPatterns(globPatterns))
    /\ patternCalls' = patternCalls + 1
    /\ UNCHANGED <<globIgnores, givenPatterns, givenIgnores, ignoreCalls>>
    /\ UNCHANGED tvars

\* line 70
CallBuildGlobIgnores ==
    /\ ignoreCalls < MaxCalls
    /\ globIgnores' = Some(buildGlobIgnores(globIgnores))
    /\ ignoreCalls' = ignoreCalls + 1
    /\ UNCHANGED <<globPatterns, givenPatterns, givenIgnores, patternCalls>>
    /\ UNCHANGED tvars

NextGlob ==
    \/ CallBuildGlobPatterns
    \/ CallBuildGlobIgnores

SpecGlob == InitGlob /\ [][NextGlob]_vars

----------------------------------------------------------------------------
\* Vocabulary of the properties.

Fulfilled == pc = "fulfilled"

Urls(m) == [i \in 1..Len(m) |-> m[i].url]

InputIndexes == 1..Len(entries)

InputRevisions == {entries[i].revision : i \in InputIndexes}

\* the input position of the entry an output entry was made from
IndexOf(revision) == CHOOSE i \in InputIndexes : entries[i].revision = revision

\* output entries that come from the input, in input order
FromInputInOrder(out) ==
    /\ \A j \in 1..Len(out) : out[j].revision \in InputRevisions
    /\ \A j, k \in 1..Len(out) :
        j < k => IndexOf(out[j].revision) < IndexOf(out[k].revision)

DefaultTrailingSlash == options.trailingSlash # "always"

ScenarioCase ==
    /\ Fulfilled
    /\ Urls(entries) = ScenarioUrls
    /\ options.adapterFallback = Undefined
    /\ options.spa.kind = "off"
    /\ DefaultTrailingSlash

\* none of the three stage prefixes, and not the default fallback document
Unmatched(url) ==
    /\ ~startsWith(url, "client/")
    /\ ~startsWith(url, "prerendered/dependencies/")
    /\ ~startsWith(url, "prerendered/pages/")
    /\ url # defaultAdapterFallback

\* the url of an input entry after lines 124-131 ends in .html and is not
\* the root document
HtmlDerived(e) ==
    LET r == resolvePrefix(options, e.url)
    IN  endsWith(r, ".html") /\ stripLeadingSlash(r) # "index.html"

RootDocument(e) ==
    LET r == resolvePrefix(options, e.url)
    IN  endsWith(r, ".html") /\ stripLeadingSlash(r) = "index.html"

SpaCase == Fulfilled /\ options.spa.kind # "off" /\ Truthy(options.adapterFallback)

MappingConfigured == options.spa.kind = "object" /\ Truthy(options.spa.fallbackMapping)

SupplierConfigured == options.spa.kind = "object" /\ options.spa.fallbackRevision

----------------------------------------------------------------------------
\* C1 as stated: with no adapterFallback, default trailing slash and SPA off,
\* the entries client/_app/x.js, prerendered/pages/about.html,
\* prerendered/fallback.html give exactly the urls _app/x.js, about/.
C1_AsStated == ScenarioCase => Urls(result.val) = <<"_app/x.js", "about/">>

\* C1 amended: the same input gives exactly the urls _app/x.js, about (no
\* trailing slash in the default mode), the fallback entry being dropped.
C1_ScenarioUrls == ScenarioCase => Urls(result.val) = <<"_app/x.js", "about">>

C1_Witness == ScenarioCase /\ Len(result.val) = 2

\* C2: every output entry made from an input entry whose url after prefix
\* resolution ends in .html and is not rewritten to base ends in "/" when
\* trailingSlash is "always" and does not end in "/" otherwise.
C2_TrailingSlash ==
    Fulfilled =>
        \A j \in 1..Len(result.val) :
            LET o == result.val[j]
            IN  (o.revision \in InputRevisions /\ HtmlDerived(entries[IndexOf(o.revision)]))
                    => (endsWith(o.url, "/") <=> options.trailingSlash = "always")

\* C3 as stated: a supplied list with a prerendered/ entry, no client/ entry
\* and no entry containing webmanifest gets the client baseline and the
\* web-manifest baseline appended, and no prerendered baseline.
C3_AsStated ==
    (/\ patternCalls = 1
     /\ givenPatterns.some
     /\ someStartsWith(givenPatterns.val, "prerendered/")
     /\ ~someStartsWith(givenPatterns.val, "client/")
     /\ ~someIncludes(givenPatterns.val, "webmanifest"))
        => globPatterns.val = givenPatterns.val \o <<ClientGlob, WebManifestGlob>>

\* C3 amended: such a list gets only the client baseline appended: the
\* appended client baseline itself contains webmanifest, so client/*.webmanifest
\* is not appended, and no prerendered baseline is.
C3_OnlyClientAppended ==
    (/\ patternCalls = 1
     /\ givenPatterns.some
     /\ someStartsWith(givenPatterns.val, "prerendered/")
     /\ ~someStartsWith(givenPatterns.val, "client/")
     /\ ~someIncludes(givenPatterns.val, "webmanifest"))
        => globPatterns.val =
               givenPatterns.val \o <<"client/**/*.{js,css,ico,png,svg,webp,webmanifest}">>

C3_Witness ==
    /\ patternCalls = 1
    /\ givenPatterns = Some(<<"prerendered/x">>)
    /\ Len(globPatterns.val) = 2

\* the shape shared by both readings of C4: one synthetic entry, last, after
\* the entries made from the input in input order, with the fallback's url
\* and size 0
SyntheticLast(out) ==
    /\ Len(out) >= 1
    /\ FromInputInOrder(SubSeq(out, 1, Len(out) - 1))
    /\ out[Len(out)].revision \notin InputRevisions
    /\ out[Len(out)].size = 0
    /\ out[Len(out)].url =
           IF MappingConfigured THEN options.spa.fallbackMapping
           ELSE options.adapterFallback

\* C4 as stated: the synthetic entry has the supplier's revision exactly
\* when both a mapping and a supplier are configured; otherwise it has the
\* content hash of the version file and the supplier is not used.
C4_AsStated ==
    SpaCase =>
        /\ SyntheticLast(result.val)
        /\ IF MappingConfigured /\ SupplierConfigured
           THEN result.val[Len(result.val)].revision = supplied
           ELSE /\ result.val[Len(result.val)].revision = digest(cHash)
                /\ supplierCalls = 0

\* C4 amended: when the transform fulfils with SPA mode on and an
\* adapterFallback (and the fallback's url is not the web manifest name),
\* exactly one synthetic entry is last; its revision is the supplier's value
\* whenever a supplier is configured, with or without a mapping, and the
\* content hash of the version file, the supplier unused, otherwise.
C4_SupplierDecides ==
    (SpaCase /\ fallbackName(options) # webManifestName) =>
        /\ SyntheticLast(result.val)
        /\ IF SupplierConfigured
           THEN /\ result.val[Len(result.val)].revision = supplied
                /\ supplierCalls = 1
           ELSE /\ result.val[Len(result.val)].revision = digest(cHash)
                /\ supplierCalls = 0

C4_Witness ==
    /\ SpaCase
    /\ SupplierConfigured
    /\ ~MappingConfigured
    /\ Len(result.val) = 2
    /\ result.val[2] = [url |-> "200.html", revision |-> "abc", size |-> 0]

\* C5: once the read stream of the version file has emitted an error, the
\* transform is rejected with that very error and has returned no manifest.
C5_ReadErrorRejects ==
    readError.some => (pc = "rejected" /\ error = readError /\ ~result.some)

C5_Witness ==
    /\ readError.some
    /\ readError.code = "EIO"
    /\ chunksRead > 0
    /\ Len(manifest) > 0

\* C6 as stated: every input entry whose url has none of the stage prefixes
\* and is not the default fallback document is in the output, url unchanged.
C6_AsStated ==
    Fulfilled =>
        \A i \in InputIndexes :
            Unmatched(entries[i].url) =>
                \E j \in 1..Len(result.val) :
                    /\ result.val[j].revision = entries[i].revision
                    /\ result.val[j].url = entries[i].url

\* C6 amended: every such entry whose url does not end in .html and is not
\* the web manifest name is in the output, url unchanged.
C6_UnmatchedNonHtml ==
    Fulfilled =>
        \A i \in InputIndexes :
            (/\ Unmatched(entries[i].url)
             /\ ~endsWith(entries[i].url, ".html")
             /\ entries[i].url # webManifestName) =>
                \E j \in 1..Len(result.val) :
                    /\ result.val[j].revision = entries[i].revision
                    /\ result.val[j].url = entries[i].url

C6_Witness ==
    /\ Fulfilled
    /\ Len(entries) = 1
    /\ entries[1].url = "prerendered/a.js"
    /\ Urls(result.val) = <<"prerendered/a.js">>

\* C8: every input entry whose url is index.html after prefix resolution
\* and leading-slash stripping is output with url exactly base, in both
\* trailing-slash modes.
C8_RootIsBase ==
    Fulfilled =>
        \A i \in InputIndexes :
            RootDocument(entries[i]) =>
                \E j \in 1..Len(result.val) :
                    /\ result.val[j].revision = entries[i].revision
                    /\ result.val[j].url = base

C8_Witness ==
    /\ Fulfilled
    /\ base = "/app/"
    /\ options.trailingSlash = "always"
    /\ Len(entries) = 1
    /\ entries[1].url = "client//index.html"
    /\ Urls(result.val) = <<"/app/">>

\* input positions whose final url is the configured web manifest name
WebManifestMatches ==
    {i \in InputIndexes :
        /\ Truthy(webManifestName)
        /\ mapEntry(base, options, entries[i]).url = webManifestName}

\* C9: with SPA mode off and no input entry named prerendered/fallback.html,
\* the output has one entry per input entry, in input order, except the
\* entries whose final url is the web manifest name.
C9_PerEntryRewrite ==
    (/\ Fulfilled
     /\ options.spa.kind = "off"
     /\ \A i \in InputIndexes : entries[i].url # defaultAdapterFallback) =>
        /\ Len(result.val) = Len(entries) - Cardinality(WebManifestMatches)
        /\ FromInputInOrder(result.val)
        /\ \A j \in 1..Len(result.val) :
            IndexOf(result.val[j].revision) \notin WebManifestMatches

C9_Witness ==
    /\ Fulfilled
    /\ options.spa.kind = "off"
    /\ Urls(entries) = <<"client/manifest.webmanifest", "client/_app/x.js">>
    /\ Urls(result.val) = <<"_app/x.js">>

\* C7: after a merge the supplied entries are a prefix of the list, in order
\* and unchanged, the patterns have an entry starting with prerendered/, one
\* starting with client/ and one containing webmanifest, the ignores have an
\* entry starting with server/; with no supplied list the result is the
\* fixed baseline.
C7_SuppliedKeptBaselineCovered ==
    /\ patternCalls >= 1 =>
        /\ SubSeq(globPatterns.val, 1, Len(givenPatterns.val)) = givenPatterns.val
        /\ someStartsWith(globPatterns.val, "prerendered/")
        /\ someStartsWith(globPatterns.val, "client/")
        /\ someIncludes(globPatterns.val, "webmanifest")
        /\ ~givenPatterns.some =>
               globPatterns.val =
                   <<"client/**/*.{js,css,ico,png,svg,webp,webmanifest}",
                     "prerendered/**/*.{html,json,js}">>
    /\ ignoreCalls >= 1 =>
        /\ SubSeq(globIgnores.val, 1, Len(givenIgnores.val)) = givenIgnores.val
        /\ someStartsWith(globIgnores.val, "server/")
        /\ ~givenIgnores.some => globIgnores.val = <<"server/**">>

C7_Witness ==
    /\ patternCalls = 1
    /\ ignoreCalls = 1
    /\ givenPatterns = Some(<<"client/*.js", "**/*.html">>)
    /\ Len(globPatterns.val) = 4
    /\ givenIgnores = Some(<<"**/*.map">>)
    /\ Len(globIgnores.val) = 2

====
